---- MODULE Spec2Model ----
(***************************************************************************)
(* Model of the enablement engine of awesome-copilot-tui:                  *)
(*   src/src/domain/model.rs   Catalog, EnablementFile                     *)
(*   src/src/domain/state.rs   DomainState (resolver, orphans)             *)
(*   src/src/domain/toggle.rs  toggle_asset                                *)
(*   src/src/domain/toggle.rs  analyze_collection_toggle_impact            *)
(*   src/src/app.rs            App: the event loop and its key handlers    *)
(*   src/src/io/enablement.rs  load_enablement, save_enablement            *)
(*   src/src/io/sync.rs        apply_from_upstream, remove_local           *)
(*   src/src/io/upstream.rs    ensure_snapshot and the snapshot cache      *)
(*                                                                         *)
(* Strings are modelled by integers that keep their order: a path or a     *)
(* collection id is a natural number, a display name is a sequence of      *)
(* character codes.  Option<T> is a sequence of length 0 (None) or 1       *)
(* (Some).  A BTreeMap<String, bool> is a function from a set of paths to  *)
(* BOOLEAN, iterated in ascending key order.                               *)
(***************************************************************************)
EXTENDS Integers, Sequences, FiniteSets, TLC

VARIABLES catalog, enablement, assets, orphans, last, app

vars == <<catalog, enablement, assets, orphans, last, app>>

(***************************************************************************)
(* Bounds of the model.                                                    *)
(***************************************************************************)
\* most override entries in the override store the session starts from
MaxOverrides == 3

(***************************************************************************)
(* Option<T>                                                               *)
(***************************************************************************)
None == <<>>

Some(v) == <<v>>

IsSome(o) == Len(o) = 1

IsNone(o) == Len(o) = 0

\* Option::unwrap_or
UnwrapOr(o, d) == IF Len(o) = 1 THEN o[1] ELSE d

(***************************************************************************)
(* AssetKind and the universe of paths                                     *)
(***************************************************************************)
AssetKind == {"Prompt", "Instruction", "ChatMode", "Collection"}

\* paths 1..5 name catalog assets, path 6 names no asset of any catalog
Paths == 1..6

\* the ids of the second collection explored: one smaller and one greater
\* than the id of the first, which is 2 (an id identifies its collection)
CollectionIds == {1, 3}

(***************************************************************************)
(* Sequence helpers: Iterator::find/position, stable sort_by                *)
(***************************************************************************)
\* indices of the elements of s whose path is p
PathIdx(s, p) == {i \in 1..Len(s) : s[i].path = p}

Min(S) == CHOOSE x \in S : \A y \in S : x <= y

\* a find that takes the first element whatever its path
FindByPath_First(s, p) == IF s = <<>> THEN None ELSE Some(s[1])

\* iter().find(|a| a.path == path): the first match, as an Option
FindByPath(s, p) == IF PathIdx(s, p) = {} THEN None ELSE Some(s[Min(PathIdx(s, p))])

\* lexicographic order on sequences of integers (str::cmp is not Greater)
RECURSIVE SeqLeq(_, _)
SeqLeq(a, b) ==
    IF a = <<>> THEN TRUE
    ELSE IF b = <<>> THEN FALSE
    ELSE IF a[1] < b[1] THEN TRUE
    ELSE IF a[1] > b[1] THEN FALSE
    ELSE SeqLeq(Tail(a), Tail(b))

\* insert the pair p = <<key, elem>> behind every pair whose key is not greater
InsertPair(sorted, p) ==
    LET n == Cardinality({i \in 1..Len(sorted) : SeqLeq(sorted[i][1], p[1])})
    IN  SubSeq(sorted, 1, n) \o <<p>> \o SubSeq(sorted, n + 1, Len(sorted))

RECURSIVE SortPairs(_)
SortPairs(s) ==
    IF s = <<>> THEN <<>>
    ELSE InsertPair(SortPairs(SubSeq(s, 1, Len(s) - 1)), s[Len(s)])

\* slice::sort_by on the keys key[i] (stable)
StableSort(s, key) ==
    LET sorted == SortPairs([i \in 1..Len(s) |-> <<key[i], s[i]>>])
    IN  [i \in 1..Len(s) |-> sorted[i][2]]

\* char::to_lowercase on the codes of A..Z
LowerChar(c) == IF c >= 65 /\ c <= 90 THEN c + 32 ELSE c

\* str::to_lowercase
ToLowercase(name) == [i \in 1..Len(name) |-> LowerChar(name[i])]

RECURSIVE Concat(_)
Concat(ss) == IF ss = <<>> THEN <<>> ELSE ss[1] \o Concat(Tail(ss))

\* an ascending enumeration of a finite set of integers
RECURSIVE Ascending(_)
Ascending(S) == IF S = {} THEN <<>> ELSE <<Min(S)>> \o Ascending(S \ {Min(S)})

(***************************************************************************)
(* EnablementFile (model.rs)                                                *)
(***************************************************************************)
\* EnablementFile::default
DefaultEnablement ==
    [version |-> 1, updated_at |-> None,
     prompts |-> <<>>, instructions |-> <<>>, chat_modes |-> <<>>, collections |-> <<>>]

\* the name of the map map_for / map_for_mut selects
MapField(kind) ==
    CASE kind = "Prompt" -> "prompts"
      [] kind = "Instruction" -> "instructions"
      [] kind = "ChatMode" -> "chat_modes"
      [] kind = "Collection" -> "collections"

\* EnablementFile::map_for
map_for(file, kind) == file[MapField(kind)]

\* BTreeMap::get(..).copied()
MapGet(m, p) == IF p \in DOMAIN m THEN Some(m[p]) ELSE None

\* BTreeMap::insert
MapInsert(m, p, v) == [q \in (DOMAIN m) \cup {p} |-> IF q = p THEN v ELSE m[q]]

\* BTreeMap::remove
MapRemove(m, p) == [q \in (DOMAIN m) \ {p} |-> m[q]]

\* EnablementFile::set
EnablementSet(file, kind, p, v) ==
    [file EXCEPT ![MapField(kind)] = MapInsert(file[MapField(kind)], p, v)]

\* EnablementFile::remove
EnablementRemove(file, kind, p) ==
    [file EXCEPT ![MapField(kind)] = MapRemove(file[MapField(kind)], p)]

(***************************************************************************)
(* Catalog (model.rs)                                                       *)
(***************************************************************************)
\* the collection ids pushed for path p, in catalog and item order
RawMembership(collections, p) ==
    Concat([c \in 1..Len(collections) |->
              Concat([k \in 1..Len(collections[c].items) |->
                        IF collections[c].items[k].path = p
                        THEN <<collections[c].id>> ELSE <<>>])])

\* Catalog::finalize: the per-kind indexes and the sorted membership lists
finalize(cat) ==
    [prompts |-> cat.prompts,
     instructions |-> cat.instructions,
     chat_modes |-> cat.chat_modes,
     collections |-> cat.collections,
     prompt_index |-> {cat.prompts[i].path : i \in 1..Len(cat.prompts)},
     instruction_index |-> {cat.instructions[i].path : i \in 1..Len(cat.instructions)},
     chat_mode_index |-> {cat.chat_modes[i].path : i \in 1..Len(cat.chat_modes)},
     collection_index |-> {cat.collections[i].path : i \in 1..Len(cat.collections)},
     membership |->
        [p \in Paths |->
            LET raw == RawMembership(cat.collections, p)
            IN  StableSort(raw, [i \in 1..Len(raw) |-> <<raw[i]>>])]]

\* Catalog::contains
contains(cat, kind, p) ==
    CASE kind = "Prompt" -> p \in cat.prompt_index
      [] kind = "Instruction" -> p \in cat.instruction_index
      [] kind = "ChatMode" -> p \in cat.chat_mode_index
      [] kind = "Collection" -> p \in cat.collection_index

\* Catalog::collection_by_id: the first collection of the catalog with that id
collection_by_id(cat, id) ==
    LET hits == {i \in 1..Len(cat.collections) : cat.collections[i].id = id}
    IN  IF hits = {} THEN None ELSE Some(cat.collections[Min(hits)])

\* Catalog::collection_by_path: collection_lookup is collected from
\* (path, collection) pairs, so the last collection with a path is kept
collection_by_path(cat, p) ==
    LET hits == PathIdx(cat.collections, p)
    IN  IF hits = {} THEN None ELSE Some(cat.collections[CHOOSE i \in hits : \A j \in hits : j <= i])

\* Catalog::memberships
memberships(cat, p) == cat.membership[p]

(***************************************************************************)
(* DomainState (state.rs): the resolver                                     *)
(***************************************************************************)
\* DomainState::explicit_state
explicit_state(cat, file, kind, p) == MapGet(map_for(file, kind), p)

CollectionRef(c) == [id |-> c.id, name |-> c.name, path |-> c.path]

\* a candidates loop that lets a collection without an override pass its
\* default on to the assets it lists
InheritedCandidates_Defaulted(cat, file, p) ==
    LET ms == memberships(cat, p)
    IN  Concat([i \in 1..Len(ms) |->
                  LET c == collection_by_id(cat, ms[i])
                  IN  IF IsSome(c)
                      THEN <<[collection |-> CollectionRef(c[1]),
                              value |-> UnwrapOr(MapGet(map_for(file, "Collection"), c[1].path), FALSE)]>>
                      ELSE <<>>])

\* the candidates loop of inherited_state: one candidate per membership id
\* whose collection (looked up by id) has an entry in the collections map
InheritedCandidates(cat, file, p) ==
    LET ms == memberships(cat, p)
    IN  Concat([i \in 1..Len(ms) |->
                  LET c == collection_by_id(cat, ms[i])
                  IN  IF IsSome(c) /\ c[1].path \in DOMAIN map_for(file, "Collection")
                      THEN <<[collection |-> CollectionRef(c[1]),
                              value |-> map_for(file, "Collection")[c[1].path]]>>
                      ELSE <<>>])

\* an inherited_state that prefers the collection the catalog lists first
inherited_state_CatalogOrder(cat, file, p) ==
    LET cands == InheritedCandidates(cat, file, p)
        sorted == StableSort(cands, [i \in 1..Len(cands) |-> <<cands[i].collection.path>>])
    IN  IF sorted = <<>> THEN None ELSE Some(sorted[1])

\* DomainState::inherited_state
inherited_state(cat, file, p) ==
    LET cands == InheritedCandidates(cat, file, p)
        sorted == StableSort(cands, [i \in 1..Len(cands) |-> <<cands[i].collection.id>>])
    IN  IF sorted = <<>> THEN None ELSE Some(sorted[1])

\* DomainState::collections_for
collections_for(cat, p) ==
    LET ms == memberships(cat, p)
    IN  Concat([i \in 1..Len(ms) |->
                  LET c == collection_by_id(cat, ms[i])
                  IN  IF IsSome(c) THEN <<CollectionRef(c[1])>> ELSE <<>>])

\* a resolver that lets the inherited value win over the explicit one
EffectiveOf_InheritedFirst(explicit, inherited) ==
    IF IsSome(inherited) THEN inherited[1].value
    ELSE IF IsSome(explicit) THEN explicit[1]
    ELSE FALSE

\* a resolver that enables an asset only when the collection agrees
EffectiveOf_Both(explicit, inherited) ==
    IF IsSome(explicit)
    THEN explicit[1] /\ (IsNone(inherited) \/ inherited[1].value)
    ELSE IF IsSome(inherited) THEN inherited[1].value
    ELSE FALSE

\* explicit.unwrap_or_else(|| inherited.as_ref().map(|s| s.value).unwrap_or(false))
EffectiveOf(explicit, inherited) ==
    IF IsSome(explicit) THEN explicit[1]
    ELSE IF IsSome(inherited) THEN inherited[1].value
    ELSE FALSE

\* build_prompt_view, build_instruction_view, build_chat_mode_view
build_asset_view(cat, file, kind, e) ==
    LET explicit == explicit_state(cat, file, kind, e.path)
        inherited == inherited_state(cat, file, e.path)
    IN  [kind |-> kind, path |-> e.path, name |-> e.name,
         collections |-> collections_for(cat, e.path),
         member_count |-> 0,
         explicit |-> explicit,
         inherited |-> inherited,
         effective |-> EffectiveOf(explicit, inherited)]

\* a collection view that starts enabled when it has no override
build_collection_view_DefaultEnabled(cat, file, c) ==
    LET explicit == explicit_state(cat, file, "Collection", c.path)
    IN  [kind |-> "Collection", path |-> c.path, name |-> c.name,
         collections |-> <<>>,
         member_count |-> Len(c.items),
         explicit |-> explicit,
         inherited |-> None,
         effective |-> UnwrapOr(explicit, TRUE)]

\* a collection view resolved like the view of any other asset
build_collection_view_Inherits(cat, file, c) ==
    LET explicit == explicit_state(cat, file, "Collection", c.path)
        inherited == inherited_state(cat, file, c.path)
    IN  [kind |-> "Collection", path |-> c.path, name |-> c.name,
         collections |-> <<>>,
         member_count |-> Len(c.items),
         explicit |-> explicit,
         inherited |-> inherited,
         effective |-> EffectiveOf(explicit, inherited)]

\* DomainState::build_collection_view
build_collection_view(cat, file, c) ==
    LET explicit == explicit_state(cat, file, "Collection", c.path)
    IN  [kind |-> "Collection", path |-> c.path, name |-> c.name,
         collections |-> <<>>,
         member_count |-> Len(c.items),
         explicit |-> explicit,
         inherited |-> None,
         effective |-> UnwrapOr(explicit, FALSE)]

\* sort_by(|a, b| a.name.to_lowercase().cmp(&b.name.to_lowercase()))
SortByName(views) == StableSort(views, [i \in 1..Len(views) |-> ToLowercase(views[i].name)])

\* the per-kind view lists recompute stores
ResolveAssets(cat, file) ==
    [kind \in AssetKind |->
        CASE kind = "Prompt" ->
               SortByName([i \in 1..Len(cat.prompts) |->
                             build_asset_view(cat, file, "Prompt", cat.prompts[i])])
          [] kind = "Instruction" ->
               SortByName([i \in 1..Len(cat.instructions) |->
                             build_asset_view(cat, file, "Instruction", cat.instructions[i])])
          [] kind = "ChatMode" ->
               SortByName([i \in 1..Len(cat.chat_modes) |->
                             build_asset_view(cat, file, "ChatMode", cat.chat_modes[i])])
          [] kind = "Collection" ->
               SortByName([i \in 1..Len(cat.collections) |->
                             build_collection_view(cat, file, cat.collections[i])])]

\* a loop that takes every entry of the map for an orphan
OrphansOfKind_All(cat, file, kind) ==
    LET keys == Ascending(DOMAIN map_for(file, kind))
    IN  [i \in 1..Len(keys) |->
           [kind |-> kind, path |-> keys[i], value |-> map_for(file, kind)[keys[i]]]]

\* one loop of collect_orphans: the entries of one map, ascending by path,
\* whose path the catalog does not hold under that kind
OrphansOfKind(cat, file, kind) ==
    LET keys == Ascending(DOMAIN map_for(file, kind))
    IN  Concat([i \in 1..Len(keys) |->
                  IF ~contains(cat, kind, keys[i])
                  THEN <<[kind |-> kind, path |-> keys[i], value |-> map_for(file, kind)[keys[i]]]>>
                  ELSE <<>>])

\* a collect_orphans that leaves the entries in the order of the four loops
collect_orphans_Unsorted(cat, file) ==
    OrphansOfKind(cat, file, "Prompt") \o OrphansOfKind(cat, file, "Instruction")
    \o OrphansOfKind(cat, file, "ChatMode") \o OrphansOfKind(cat, file, "Collection")

\* DomainState::collect_orphans
collect_orphans(cat, file) ==
    LET result == OrphansOfKind(cat, file, "Prompt") \o OrphansOfKind(cat, file, "Instruction")
                  \o OrphansOfKind(cat, file, "ChatMode") \o OrphansOfKind(cat, file, "Collection")
    IN  StableSort(result, [i \in 1..Len(result) |-> <<result[i].path>>])

\* a recompute that resolves the views and forgets the orphans
Recompute_NoOrphans(cat, file) ==
    [assets |-> ResolveAssets(cat, file), orphans |-> <<>>]

\* DomainState::recompute leaves these two fields behind
Recompute(cat, file) ==
    [assets |-> ResolveAssets(cat, file), orphans |-> collect_orphans(cat, file)]

(***************************************************************************)
(* The catalogs and override stores a session can start from                *)
(***************************************************************************)
\* the entries of the collection files explored
ItemI == [path |-> 2, kind |-> "Instruction"]

ItemP == [path |-> 1, kind |-> "Prompt"]

\* a nested collection
ItemC == [path |-> 5, kind |-> "Collection"]

\* an entry that names the instruction's path under the kind Prompt
ItemX == [path |-> 2, kind |-> "Prompt"]

\* the item lists of the collections at paths 4 and 5: a member shared by
\* both collections, a nested collection, a member listed twice, an empty
\* collection, an entry of the wrong kind, a collection that lists itself
CollectionItems ==
    {<< <<ItemI, ItemP>>, <<ItemI>> >>,
     << <<ItemC, ItemI>>, <<ItemP>> >>,
     << <<ItemI, ItemI>>, <<>> >>,
     << <<ItemX, ItemP>>, <<ItemP, ItemI>> >>,
     << <<>>, <<>> >>,
     << <<ItemP>>, <<ItemC>> >>}

\* load_catalog keeps every list sorted by path; the ids come from the
\* collection files and need not be ordered like the paths.
\* The names are "P", "I", "M", "B" and "a".
Catalogs ==
    {[prompts |-> <<[path |-> 1, name |-> <<80>>]>>,
      instructions |-> <<[path |-> 2, name |-> <<73>>]>>,
      chat_modes |-> <<[path |-> 3, name |-> <<77>>]>>,
      collections |->
         <<[path |-> 4, id |-> 2, name |-> <<66>>, items |-> items[1]],
           [path |-> 5, id |-> id5, name |-> <<97>>, items |-> items[2]]>>] :
        id5 \in CollectionIds, items \in CollectionItems}

\* the keys of the override store a session starts from: the instruction,
\* the two collections, and an instruction entry for the prompt's path
StoreKeys ==
    {<<"Instruction", 2>>, <<"Collection", 4>>, <<"Collection", 5>>, <<"Instruction", 1>>}

\* the store with the entries f, a function from a set of keys to BOOLEAN
StoreOf(f) ==
    LET m(kind) == [p \in {q \in Paths : <<kind, q>> \in DOMAIN f} |-> f[<<kind, p>>]]
    IN  [version |-> 1, updated_at |-> None,
         prompts |-> m("Prompt"), instructions |-> m("Instruction"),
         chat_modes |-> m("ChatMode"), collections |-> m("Collection")]

\* the updated_at a loaded store can carry: save_enablement stamps every
\* file it writes, a missing file loads as the default store without stamp
Stamps(f) == IF DOMAIN f = {} THEN {None, Some(1)} ELSE {Some(1)}

InitialStores ==
    UNION {{[StoreOf(f) EXCEPT !.updated_at = t] : t \in Stamps(f)} :
        f \in UNION {[K -> BOOLEAN] : K \in {X \in SUBSET StoreKeys : Cardinality(X) <= MaxOverrides}}}

\* the operation that ran last: its name and arguments, whether it returned
\* Ok, the view toggle_asset found before it changed the store (before), the
\* view it returned (asset) and the count cleanup_orphans returned (removed)
NoCall ==
    [op |-> "new", kind |-> "Prompt", path |-> 0, ok |-> TRUE,
     before |-> None, asset |-> None, removed |-> 0]

(***************************************************************************)
(* DomainState::new                                                         *)
(***************************************************************************)
\* App::new around a catalog and a store loaded from disk: the fields of
\* App that the key handlers read and write (error and prompt by their
\* presence, failed for an Err that leaves event_loop), and what the
\* session finds on disk: the enablement file (disk), the catalog of the
\* upstream snapshot (snapshot) and the local asset files under .github
\* (files, as pairs of kind and path)
AppNew(cat, file, files) ==
    [dirty |-> FALSE, error |-> FALSE, prompt |-> None, should_quit |-> FALSE,
     failed |-> FALSE, disk |-> file, snapshot |-> cat, files |-> files,
     tab |-> "Instruction",
     selections |-> [kind \in AssetKind |-> 0],
     search |-> [active |-> FALSE, query |-> <<>>, draft |-> <<>>]]

\* Catalog::default
DefaultCatalog ==
    [prompts |-> <<>>, instructions |-> <<>>, chat_modes |-> <<>>, collections |-> <<>>]

\* the DomainState on its own, with no App around it
NoApp == AppNew(DefaultCatalog, DefaultEnablement, {})

Init ==
    \E cat \in Catalogs, file \in InitialStores :
        /\ catalog = finalize(cat)
        /\ enablement = file
        /\ assets = Recompute(finalize(cat), file).assets
        /\ orphans = Recompute(finalize(cat), file).orphans
        /\ last = NoCall
        /\ app = NoApp

(***************************************************************************)
(* toggle::toggle_asset                                                     *)
(***************************************************************************)
\* a baseline that agrees with the resolver's default
Baseline_DefaultFalse(inherited_value) == UnwrapOr(inherited_value, FALSE)

\* inherited_value.unwrap_or(true)
Baseline(inherited_value) == UnwrapOr(inherited_value, TRUE)

\* a toggle that always stores the desired value
NewExplicit_AlwaysSet(current_effective, inherited_value) == Some(~current_effective)

\* a toggle that measures the desired value against the resolver's default
NewExplicit_ResolverDefault(current_effective, inherited_value) ==
    IF ~current_effective = UnwrapOr(inherited_value, FALSE)
    THEN None ELSE Some(~current_effective)

\* a toggle that only ever removes the entry
NewExplicit_NeverStores(current_effective, inherited_value) == None

\* the override toggle_asset decides to store: None removes the entry
NewExplicit(current_effective, inherited_value) ==
    LET desired == ~current_effective
    IN  IF desired = Baseline(inherited_value) THEN None ELSE Some(desired)

\* a toggle that also clears the store's time stamp
ToggledStore_Unstamped(file, kind, path, new_explicit) ==
    IF IsSome(new_explicit)
    THEN [EnablementSet(file, kind, path, new_explicit[1]) EXCEPT !.updated_at = None]
    ELSE [EnablementRemove(file, kind, path) EXCEPT !.updated_at = None]

\* a toggle that stores true where the entry is to be removed
ToggledStore_KeepsEntry(file, kind, path, new_explicit) ==
    EnablementSet(file, kind, path, UnwrapOr(new_explicit, TRUE))

\* the store after lines 35-40 of toggle_asset
ToggledStore(file, kind, path, new_explicit) ==
    IF IsSome(new_explicit)
    THEN EnablementSet(file, kind, path, new_explicit[1])
    ELSE EnablementRemove(file, kind, path)

toggle_asset(kind, path) ==
    LET found == FindByPath(assets[kind], path)
    IN  IF IsNone(found)
        THEN /\ last' = [op |-> "toggle", kind |-> kind, path |-> path, ok |-> FALSE,
                         before |-> None, asset |-> None, removed |-> 0]
             /\ UNCHANGED <<catalog, enablement, assets, orphans>>
        ELSE LET inherited_value == IF IsSome(found[1].inherited)
                                    THEN Some(found[1].inherited[1].value) ELSE None
                 file == ToggledStore(enablement, kind, path,
                                      NewExplicit(found[1].effective, inherited_value))
                 fresh == Recompute(catalog, file)
                 updated_asset == FindByPath(fresh.assets[kind], path)
             IN  /\ enablement' = file
                 /\ assets' = fresh.assets
                 /\ orphans' = fresh.orphans
                 /\ last' = [op |-> "toggle", kind |-> kind, path |-> path,
                             ok |-> IsSome(updated_asset), before |-> found,
                             asset |-> updated_asset, removed |-> 0]
                 /\ UNCHANGED catalog

(***************************************************************************)
(* DomainState::cleanup_orphans                                             *)
(***************************************************************************)
\* a removal loop that stops after the first orphan
RemoveAll_First(file, os) ==
    IF os = <<>> THEN file ELSE EnablementRemove(file, os[1].kind, os[1].path)

RECURSIVE RemoveAll(_, _)
RemoveAll(file, os) ==
    IF os = <<>> THEN file
    ELSE RemoveAll(EnablementRemove(file, os[1].kind, os[1].path), Tail(os))

cleanup_orphans ==
    LET found == collect_orphans(catalog, enablement)
        removed == Len(found)
    IN  IF removed = 0
        THEN /\ last' = [op |-> "cleanup", kind |-> "Prompt", path |-> 0, ok |-> TRUE,
                         before |-> None, asset |-> None, removed |-> 0]
             /\ UNCHANGED <<catalog, enablement, assets, orphans>>
        ELSE LET file == RemoveAll(enablement, found)
                 fresh == Recompute(catalog, file)
             IN  /\ enablement' = file
                 /\ assets' = fresh.assets
                 /\ orphans' = fresh.orphans
                 /\ last' = [op |-> "cleanup", kind |-> "Prompt", path |-> 0, ok |-> TRUE,
                             before |-> None, asset |-> None, removed |-> removed]
                 /\ UNCHANGED catalog

(***************************************************************************)
(* App::reset_assets, as far as the DomainState goes: when a remove_local   *)
(* of the first loop fails the function returns before it touches the store *)
(***************************************************************************)
\* a reset that clears the four maps and keeps the time stamp
reset_assets_KeepsStamp(removed_all) ==
    IF ~removed_all
    THEN /\ last' = [op |-> "reset", kind |-> "Prompt", path |-> 0, ok |-> FALSE,
                     before |-> None, asset |-> None, removed |-> 0]
         /\ UNCHANGED <<catalog, enablement, assets, orphans>>
    ELSE LET file == [enablement EXCEPT !.prompts = <<>>, !.instructions = <<>>,
                                        !.chat_modes = <<>>, !.collections = <<>>]
             fresh == Recompute(catalog, file)
         IN  /\ enablement' = file
             /\ assets' = fresh.assets
             /\ orphans' = fresh.orphans
             /\ last' = [op |-> "reset", kind |-> "Prompt", path |-> 0, ok |-> TRUE,
                         before |-> None, asset |-> None, removed |-> 0]
             /\ UNCHANGED catalog

reset_assets(removed_all) ==
    IF ~removed_all
    THEN /\ last' = [op |-> "reset", kind |-> "Prompt", path |-> 0, ok |-> FALSE,
                     before |-> None, asset |-> None, removed |-> 0]
         /\ UNCHANGED <<catalog, enablement, assets, orphans>>
    ELSE LET file == [enablement EXCEPT !.prompts = <<>>, !.instructions = <<>>,
                                        !.chat_modes = <<>>, !.collections = <<>>,
                                        !.updated_at = None]
             fresh == Recompute(catalog, file)
         IN  /\ enablement' = file
             /\ assets' = fresh.assets
             /\ orphans' = fresh.orphans
             /\ last' = [op |-> "reset", kind |-> "Prompt", path |-> 0, ok |-> TRUE,
                         before |-> None, asset |-> None, removed |-> 0]
             /\ UNCHANGED catalog

(***************************************************************************)
(* toggle::analyze_collection_toggle_impact                                 *)
(***************************************************************************)
\* an analysis that takes a collection without an override for enabled
WillEnable_UnsetIsEnabled(collection_view) == ~UnwrapOr(collection_view.explicit, TRUE)

\* let will_enable = !collection_view.effective
WillEnable(collection_view) == ~collection_view.effective

\* an analysis that lets every member follow the collection
NewEffective_FollowsCollection(member, will_enable) == will_enable

\* the new effective value the analysis gives a member
NewEffective(member, will_enable) ==
    IF IsSome(member.explicit) THEN member.effective ELSE will_enable

\* MemberToggleImpact, from the member's current and new effective values
ImpactOf(current_effective, new_effective) ==
    IF current_effective = new_effective THEN "Unchanged"
    ELSE IF new_effective THEN "WillEnable"
    ELSE "WillDisable"

\* the body of the loop over collection.items: a MemberImpact for an item
\* that has a view under its kind, nothing for an item without one
MemberImpacts(item, will_enable) ==
    LET member == FindByPath(assets[item.kind], item.path)
    IN  IF IsNone(member) THEN <<>>
        ELSE <<[path |-> item.path, name |-> member[1].name, kind |-> item.kind,
                current_effective |-> member[1].effective,
                new_effective |-> NewEffective(member[1], will_enable),
                impact |-> ImpactOf(member[1].effective,
                                    NewEffective(member[1], will_enable))]>>

\* the number of members the analysis has classified as impact
CountImpact(affected_members, impact) ==
    Cardinality({i \in 1..Len(affected_members) : affected_members[i].impact = impact})

\* the value analyze_collection_toggle_impact returns: None for Err
CollectionToggleImpact(collection_path) ==
    LET collection == FindByPath(catalog.collections, collection_path)
        collection_view == FindByPath(assets["Collection"], collection_path)
    IN  IF IsNone(collection) \/ IsNone(collection_view) THEN None
        ELSE LET will_enable == WillEnable(collection_view[1])
                 items == collection[1].items
                 affected_members ==
                     Concat([i \in 1..Len(items) |-> MemberImpacts(items[i], will_enable)])
             IN  Some([collection_name |-> collection[1].name,
                       collection_will_enable |-> will_enable,
                       total_members |-> Len(items),
                       enable_count |-> CountImpact(affected_members, "WillEnable"),
                       disable_count |-> CountImpact(affected_members, "WillDisable"),
                       unchanged_count |-> CountImpact(affected_members, "Unchanged"),
                       affected_members |-> affected_members])

\* an analysis that applies to the store the collection state it previews
analyze_collection_toggle_impact_Applies(collection_path) ==
    LET r == CollectionToggleImpact(collection_path)
        file == IF IsSome(r)
                THEN EnablementSet(enablement, "Collection", collection_path,
                                   r[1].collection_will_enable)
                ELSE enablement
    IN  /\ last' = [op |-> "analyze", kind |-> "Collection", path |-> collection_path,
                    ok |-> IsSome(r), before |-> None, asset |-> None, removed |-> 0,
                    impact |-> r]
        /\ enablement' = file
        /\ assets' = Recompute(catalog, file).assets
        /\ orphans' = Recompute(catalog, file).orphans
        /\ UNCHANGED catalog

\* the call takes the state by shared reference: it only returns a value,
\* kept in the impact field of last
analyze_collection_toggle_impact(collection_path) ==
    /\ last' = [op |-> "analyze", kind |-> "Collection", path |-> collection_path,
                ok |-> IsSome(CollectionToggleImpact(collection_path)),
                before |-> None, asset |-> None, removed |-> 0,
                impact |-> CollectionToggleImpact(collection_path)]
    /\ UNCHANGED <<catalog, enablement, assets, orphans>>

\* the paths analysed: the two collections and the path of a prompt
AnalyzeInputs == {4, 5, 1}

\* the (kind, path) pairs toggled: every asset of the catalog, a path under
\* a kind that does not have it, and a path no kind has
ToggleInputs ==
    {<<"Prompt", 1>>, <<"Instruction", 2>>, <<"ChatMode", 3>>, <<"Collection", 4>>,
     <<"Collection", 5>>, <<"Instruction", 1>>, <<"Prompt", 6>>}

Toggle == \E in \in ToggleInputs : toggle_asset(in[1], in[2]) /\ UNCHANGED app

Cleanup == cleanup_orphans /\ UNCHANGED app

Reset == \E removed_all \in BOOLEAN : reset_assets(removed_all) /\ UNCHANGED app

Analyze ==
    \E collection_path \in AnalyzeInputs :
        analyze_collection_toggle_impact(collection_path) /\ UNCHANGED app

Next == Toggle \/ Cleanup \/ Reset \/ Analyze

Spec == Init /\ [][Next]_vars

(***************************************************************************)
(* Sessions that start from stores with several orphan entries              *)
(***************************************************************************)
\* entries for paths the catalog lacks altogether or has under another kind,
\* next to entries of an instruction and a collection the catalog has
OrphanStoreKeys ==
    {<<"Prompt", 6>>, <<"Instruction", 1>>, <<"ChatMode", 1>>,
     <<"Instruction", 2>>, <<"Collection", 4>>}

OrphanStores ==
    UNION {{[StoreOf(f) EXCEPT !.updated_at = t] : t \in Stamps(f)} :
        f \in UNION {[K -> BOOLEAN] : K \in SUBSET OrphanStoreKeys}}

\* the catalogs of these sessions
OrphanCatalogs ==
    {cat \in Catalogs :
        cat.collections[2].id = 1 /\ cat.collections[2].items \in {<<ItemI>>, <<ItemC>>}}

InitOrphans ==
    \E cat \in OrphanCatalogs, file \in OrphanStores :
        /\ catalog = finalize(cat)
        /\ enablement = file
        /\ assets = Recompute(finalize(cat), file).assets
        /\ orphans = Recompute(finalize(cat), file).orphans
        /\ last = NoCall
        /\ app = NoApp

SpecOrphans == InitOrphans /\ [][Next]_vars

(***************************************************************************)
(* App (app.rs): the key handlers around the DomainState.  The outcome of   *)
(* the file system calls of a handler is an input of its action.            *)
(***************************************************************************)
\* event_loop still reads keys: it has not seen should_quit and no handler
\* has returned an Err to it
Running == ~app.should_quit /\ ~app.failed

\* handle_key in search input mode: every key goes to handle_search_key
Searching == Running /\ app.search.active

\* handle_key with a pending prompt: every key goes to handle_prompt_key
Prompting == Running /\ ~app.search.active /\ app.prompt # None

\* a dispatch that looks at the prompt only
NoPrompt_IgnoresSearch == Running /\ app.prompt = None

\* handle_key passes the key to the handlers below only when the search
\* input is not active and no prompt is pending
NoPrompt == Running /\ ~app.search.active /\ app.prompt = None

\* str::contains
Contains(hay, needle) ==
    \E i \in 0..(Len(hay) - Len(needle)) : SubSeq(hay, i + 1, i + Len(needle)) = needle

\* str::trim on the code of the space
RECURSIVE TrimStart(_)
TrimStart(t) == IF t # <<>> /\ t[1] = 32 THEN TrimStart(Tail(t)) ELSE t

RECURSIVE TrimEnd(_)
TrimEnd(t) == IF t # <<>> /\ t[Len(t)] = 32 THEN TrimEnd(SubSeq(t, 1, Len(t) - 1)) ELSE t

Trim(t) == TrimEnd(TrimStart(t))

\* the text of a path or of a collection id, which the model numbers: its digit
DigitText(n) == <<48 + n>>

\* asset_matches: the name, the path, the slug and the description (both
\* empty in the catalogs of this model, like tags and apply_to), then the
\* ids and names of the collections that list the asset
asset_matches(asset, query) ==
    \/ Contains(ToLowercase(asset.name), query)
    \/ Contains(ToLowercase(DigitText(asset.path)), query)
    \/ Contains(<<>>, query)
    \/ \E i \in 1..Len(asset.collections) :
          \/ Contains(ToLowercase(DigitText(asset.collections[i].id)), query)
          \/ Contains(ToLowercase(asset.collections[i].name), query)

\* App::filtered_assets of the App a over the resolved views
filtered_assets(a, views, kind) ==
    IF a.search.query = <<>> THEN views[kind]
    ELSE SelectSeq(views[kind], LAMBDA v : asset_matches(v, ToLowercase(a.search.query)))

\* App::current_selection
current_selection(a) == a.selections[a.tab]

\* App::selected_asset
selected_asset(a, views) ==
    LET filtered == filtered_assets(a, views, a.tab)
    IN  IF filtered = <<>> THEN None
        ELSE LET idx == IF current_selection(a) < Len(filtered) - 1
                        THEN current_selection(a) ELSE Len(filtered) - 1
             IN  Some(filtered[idx + 1])

\* App::normalize_selection_after_filter
normalize_selection_after_filter(a, views) ==
    LET len == Len(filtered_assets(a, views, a.tab))
    IN  [a EXCEPT !.selections[a.tab] =
            IF len = 0 THEN 0 ELSE IF @ >= len THEN len - 1 ELSE @]

\* App::ensure_selection_bounds, the first statement of every pass of
\* event_loop
ensure_selection_bounds(a, views) == normalize_selection_after_filter(a, views)

\* sync::apply_from_upstream (apply) or sync::remove_local of one asset
\* file; neither touches anything for a collection
SyncFile(files, kind, path, apply) ==
    IF kind = "Collection" THEN files
    ELSE IF apply THEN files \cup {<<kind, path>>}
    ELSE files \ {<<kind, path>>}

\* the file operations done in order, each a record of kind, path and apply
RECURSIVE SyncFiles(_, _)
SyncFiles(files, steps) ==
    IF steps = <<>> THEN files
    ELSE SyncFiles(SyncFile(files, steps[1].kind, steps[1].path, steps[1].apply), Tail(steps))

\* a sync after a collection toggle that reads the state of the collection
\* for each of its members
SyncSteps_FollowCollection(cat, views, kind, path, result) ==
    IF kind = "Collection"
    THEN LET collection == FindByPath(cat.collections, path)
             items == IF IsSome(collection) THEN collection[1].items ELSE <<>>
         IN  [i \in 1..Len(items) |->
                [kind |-> items[i].kind, path |-> items[i].path, apply |-> result.effective]]
    ELSE <<[kind |-> kind, path |-> path, apply |-> result.effective]>>

\* App::apply_after_toggle: the file operations it calls, in order, for the
\* toggled asset (kind, path), the views after the toggle and the view the
\* toggle returned; an item without a view under its kind is skipped
SyncSteps(cat, views, kind, path, result) ==
    IF kind = "Collection"
    THEN LET collection == FindByPath(cat.collections, path)
             items == IF IsSome(collection) THEN collection[1].items ELSE <<>>
         IN  Concat([i \in 1..Len(items) |->
                LET view == FindByPath(views[items[i].kind], items[i].path)
                IN  IF IsNone(view) THEN <<>>
                    ELSE <<[kind |-> items[i].kind, path |-> items[i].path,
                            apply |-> view[1].effective]>>])
    ELSE <<[kind |-> kind, path |-> path, apply |-> result.effective]>>

\* the files after the calls of steps when the call number fail_at returns
\* Err (its file is left as it was): 0 for none, a number beyond the calls
\* for the compute_local_statuses that follows them
SyncedFiles(files, steps, fail_at) ==
    IF fail_at = 0 \/ fail_at > Len(steps) THEN SyncFiles(files, steps)
    ELSE SyncFiles(files, SubSeq(steps, 1, fail_at - 1))

\* most file operations of one handler that are given a chance to fail
MaxSyncSteps == 3

\* App::toggle_selection on the selected view, and handle_key's
\* "Toggle failed" arm: dirty is set after apply_after_toggle has returned Ok
toggle_selection(fail_at) ==
    LET selected == selected_asset(app, assets)
    IN  IF IsNone(selected) THEN UNCHANGED vars
        ELSE /\ toggle_asset(selected[1].kind, selected[1].path)
             /\ LET steps == SyncSteps(catalog, assets', selected[1].kind,
                                       selected[1].path, last'.asset[1])
                    files == SyncedFiles(app.files, steps, fail_at)
                IN  app' = IF fail_at = 0
                           THEN normalize_selection_after_filter(
                                    [app EXCEPT !.files = files, !.dirty = TRUE,
                                                !.error = FALSE], assets')
                           ELSE [app EXCEPT !.files = files, !.error = TRUE]

\* App::apply_selected and handle_key's "Apply failed" arm: outcome "copy"
\* for an Err of apply_from_upstream, "status" for one of
\* compute_local_statuses
apply_selected(outcome) ==
    LET selected == selected_asset(app, assets)
    IN  /\ app' = IF IsNone(selected) \/ selected[1].kind = "Collection" THEN app
                  ELSE IF outcome = "copy" THEN [app EXCEPT !.error = TRUE]
                  ELSE [app EXCEPT !.files = SyncFile(@, selected[1].kind, selected[1].path, TRUE),
                                   !.error = (@ \/ outcome = "status")]
        /\ UNCHANGED <<catalog, enablement, assets, orphans, last>>

\* App::cleanup_orphans
App_cleanup_orphans ==
    /\ cleanup_orphans
    /\ app' = [app EXCEPT !.dirty = (@ \/ last'.removed > 0), !.error = FALSE]

\* the remove_local calls of App::reset_assets, in order: every prompt,
\* instruction and chat mode view
ResetSteps(views) ==
    LET of(kind) == [i \in 1..Len(views[kind]) |->
                        [kind |-> kind, path |-> views[kind][i].path, apply |-> FALSE]]
    IN  of("Prompt") \o of("Instruction") \o of("ChatMode")

\* App::reset_assets and handle_key's "Reset failed" arm: a remove_local
\* that fails (the call number fail_at) returns before the store is
\* cleared, a compute_local_statuses that fails returns after it and before
\* dirty is set
App_reset_assets(fail_at, statuses_ok) ==
    LET steps == ResetSteps(assets)
        removed_all == fail_at = 0 \/ fail_at > Len(steps)
    IN  /\ reset_assets(removed_all)
        /\ app' = IF removed_all /\ statuses_ok
                  THEN [app EXCEPT !.files = SyncedFiles(@, steps, fail_at),
                                   !.dirty = TRUE, !.error = FALSE]
                  ELSE [app EXCEPT !.files = SyncedFiles(@, steps, fail_at),
                                   !.error = TRUE]

\* a save that writes the file with the stamp it was loaded with
save_enablement_NoStamp(now, written) ==
    /\ last' = [op |-> "save", kind |-> "Prompt", path |-> 0, ok |-> written,
                before |-> None, asset |-> None, removed |-> 0, now |-> now]
    /\ UNCHANGED <<catalog, enablement, assets, orphans>>

\* enablement::save_enablement at time now: the stamp is set first, then
\* the file is validated and written (written) or an Err is returned
save_enablement(now, written) ==
    /\ enablement' = [enablement EXCEPT !.updated_at = Some(now)]
    /\ last' = [op |-> "save", kind |-> "Prompt", path |-> 0, ok |-> written,
                before |-> None, asset |-> None, removed |-> 0, now |-> now]
    /\ UNCHANGED <<catalog, assets, orphans>>

\* App::save and handle_key's "Save failed" arm
App_save(now, written) ==
    /\ save_enablement(now, written)
    /\ app' = IF written
              THEN [app EXCEPT !.dirty = FALSE, !.error = FALSE, !.disk = enablement']
              ELSE [app EXCEPT !.error = TRUE]

\* App::set_quit
set_quit == [app EXCEPT !.prompt = None, !.should_quit = TRUE]

\* a 'q' that quits whatever the dirty flag says
request_quit_Immediately ==
    /\ app' = set_quit
    /\ UNCHANGED <<catalog, enablement, assets, orphans, last>>

\* App::request_quit
request_quit ==
    /\ app' = IF app.dirty THEN [app EXCEPT !.prompt = Some("Quit")] ELSE set_quit
    /\ UNCHANGED <<catalog, enablement, assets, orphans, last>>

\* the App fields as App::reload leaves them: untouched when load_catalog
\* or load_enablement fails (outcome "load"), set in lines 575-578 otherwise
ReloadedApp(a, outcome) ==
    IF outcome = "load" THEN a
    ELSE [a EXCEPT !.dirty = FALSE, !.prompt = None, !.error = FALSE]

\* App::reload: nothing changes when the load fails; otherwise the
\* DomainState is built anew from the catalog of the snapshot and the file
\* on disk, and compute_local_statuses succeeds (outcome "ok") or fails
\* ("status"); after is the App the caller is left with
reload(outcome, after) ==
    IF outcome = "load"
    THEN /\ app' = after
         /\ UNCHANGED <<catalog, enablement, assets, orphans, last>>
    ELSE /\ catalog' = finalize(app.snapshot)
         /\ enablement' = app.disk
         /\ assets' = Recompute(finalize(app.snapshot), app.disk).assets
         /\ orphans' = Recompute(finalize(app.snapshot), app.disk).orphans
         /\ last' = [NoCall EXCEPT !.op = "reload", !.ok = (outcome = "ok")]
         /\ app' = after

\* the views App::reload leaves behind
ReloadedViews == Recompute(finalize(app.snapshot), app.disk).assets

\* App::request_reload: its Err arm sets the error message and handle_key
\* returns Ok, so that the next pass of event_loop bounds the selection
\* before it draws
request_reload(outcome) ==
    IF app.dirty
    THEN /\ app' = [app EXCEPT !.prompt = Some("Reload")]
         /\ UNCHANGED <<catalog, enablement, assets, orphans, last>>
    ELSE reload(outcome,
                IF outcome = "load" THEN [app EXCEPT !.error = TRUE]
                ELSE ensure_selection_bounds(
                         [ReloadedApp(app, outcome) EXCEPT !.error = (outcome # "ok")],
                         ReloadedViews))

\* App::handle_prompt_key, Esc or 'n'
prompt_cancel ==
    /\ app' = [app EXCEPT !.prompt = None]
    /\ UNCHANGED <<catalog, enablement, assets, orphans, last>>

\* App::handle_prompt_key, 'y' or Enter: an Err of reload goes up to
\* event_loop, which returns it; after an Ok the next pass of event_loop
\* bounds the selection before it draws
prompt_confirm(outcome) ==
    IF app.prompt = Some("Quit")
    THEN /\ app' = set_quit
         /\ UNCHANGED <<catalog, enablement, assets, orphans, last>>
    ELSE reload(outcome,
                IF outcome = "ok"
                THEN ensure_selection_bounds(
                         ReloadedApp([app EXCEPT !.prompt = None], outcome), ReloadedViews)
                ELSE [ReloadedApp([app EXCEPT !.prompt = None], outcome)
                         EXCEPT !.failed = TRUE])

\* App::next_tab
next_tab ==
    LET tab == CASE app.tab = "Prompt" -> "Instruction"
                 [] app.tab = "Instruction" -> "ChatMode"
                 [] app.tab = "ChatMode" -> "Collection"
                 [] app.tab = "Collection" -> "Prompt"
    IN  /\ app' = normalize_selection_after_filter([app EXCEPT !.tab = tab], assets)
        /\ UNCHANGED <<catalog, enablement, assets, orphans, last>>

\* App::prev_tab
prev_tab ==
    LET tab == CASE app.tab = "Prompt" -> "Collection"
                 [] app.tab = "Instruction" -> "Prompt"
                 [] app.tab = "ChatMode" -> "Instruction"
                 [] app.tab = "Collection" -> "ChatMode"
    IN  /\ app' = normalize_selection_after_filter([app EXCEPT !.tab = tab], assets)
        /\ UNCHANGED <<catalog, enablement, assets, orphans, last>>

\* a move that adds the delta and does not look at the length of the list
move_selection_Unclamped(delta) ==
    /\ app' = [app EXCEPT !.selections[app.tab] = IF @ + delta < 0 THEN 0 ELSE @ + delta]
    /\ UNCHANGED <<catalog, enablement, assets, orphans, last>>

\* App::move_selection: saturating_sub for a negative delta, min(len - 1)
\* for a positive one
move_selection(delta) ==
    LET len == Len(filtered_assets(app, assets, app.tab))
        current == current_selection(app)
        new_index == IF delta < 0
                     THEN (IF current + delta < 0 THEN 0 ELSE current + delta)
                     ELSE (IF current + delta < len - 1 THEN current + delta ELSE len - 1)
    IN  /\ app' = [app EXCEPT !.selections[app.tab] = IF len = 0 THEN 0 ELSE new_index]
        /\ UNCHANGED <<catalog, enablement, assets, orphans, last>>

\* App::select_index
select_index(index) ==
    LET len == Len(filtered_assets(app, assets, app.tab))
    IN  /\ app' = [app EXCEPT !.selections[app.tab] =
                      IF len = 0 THEN 0 ELSE IF index < len - 1 THEN index ELSE len - 1]
        /\ UNCHANGED <<catalog, enablement, assets, orphans, last>>

\* App::select_last
select_last ==
    LET len == Len(filtered_assets(app, assets, app.tab))
    IN  /\ app' = [app EXCEPT !.selections[app.tab] = IF len = 0 THEN 0 ELSE len - 1]
        /\ UNCHANGED <<catalog, enablement, assets, orphans, last>>

\* App::activate_search
activate_search ==
    /\ app' = [app EXCEPT !.search.active = TRUE, !.search.draft = app.search.query]
    /\ UNCHANGED <<catalog, enablement, assets, orphans, last>>

\* handle_key's Esc arm: App::clear_filter, then message and error are
\* cleared
clear_filter ==
    /\ app' = IF app.search.query # <<>>
              THEN normalize_selection_after_filter(
                       [app EXCEPT !.search.query = <<>>, !.error = FALSE], assets)
              ELSE [app EXCEPT !.error = FALSE]
    /\ UNCHANGED <<catalog, enablement, assets, orphans, last>>

\* App::handle_search_key, Esc
search_cancel ==
    /\ app' = [app EXCEPT !.search.active = FALSE, !.search.draft = <<>>]
    /\ UNCHANGED <<catalog, enablement, assets, orphans, last>>

\* App::handle_search_key, Enter
search_apply ==
    /\ app' = normalize_selection_after_filter(
                  [app EXCEPT !.search.query = Trim(app.search.draft),
                              !.search.active = FALSE], assets)
    /\ UNCHANGED <<catalog, enablement, assets, orphans, last>>

\* App::handle_search_key, Backspace: String::pop
search_backspace ==
    /\ app' = [app EXCEPT !.search.draft =
                  IF @ = <<>> THEN @ ELSE SubSeq(@, 1, Len(@) - 1)]
    /\ UNCHANGED <<catalog, enablement, assets, orphans, last>>

\* App::handle_search_key, a character typed without Ctrl
search_char(ch) ==
    /\ app' = [app EXCEPT !.search.draft = Append(@, ch)]
    /\ UNCHANGED <<catalog, enablement, assets, orphans, last>>

\* the catalog App sessions start from, an instruction and the collection
\* that lists it, and the stores on disk
AppCatalogs ==
    {[prompts |-> <<>>, instructions |-> <<[path |-> 2, name |-> <<73>>]>>,
      chat_modes |-> <<>>,
      collections |-> <<[path |-> 4, id |-> 2, name |-> <<66>>, items |-> <<ItemI>>]>>]}

\* no entry, an entry of the collection or of the instruction, and an
\* orphan entry next to the collection's
AppOverrides ==
    {[k \in {} |-> TRUE],
     (<<"Collection", 4>> :> TRUE),
     (<<"Collection", 4>> :> FALSE),
     (<<"Instruction", 2>> :> TRUE),
     (<<"Collection", 4>> :> TRUE) @@ (<<"Instruction", 1>> :> TRUE)}

AppStores ==
    UNION {{[StoreOf(f) EXCEPT !.updated_at = t] : t \in Stamps(f)} : f \in AppOverrides}

\* the times a save can happen at
SaveTimes == {2, 3}

\* the outcomes of a reload
ReloadOutcomes == {"ok", "load", "status"}

\* run: load_catalog, load_enablement, DomainState::new, App::new; no
\* local asset file exists yet
InitApp ==
    \E cat \in AppCatalogs, file \in AppStores :
        /\ catalog = finalize(cat)
        /\ enablement = file
        /\ assets = Recompute(finalize(cat), file).assets
        /\ orphans = Recompute(finalize(cat), file).orphans
        /\ last = NoCall
        /\ app = AppNew(cat, file, {})

\* Enter or space: the selected view of the current tab is toggled
KeyToggle == NoPrompt /\ \E fail_at \in 0..MaxSyncSteps : toggle_selection(fail_at)

KeyCleanup == NoPrompt /\ App_cleanup_orphans

KeyReset ==
    /\ NoPrompt
    /\ \E fail_at \in 0..MaxSyncSteps, statuses_ok \in BOOLEAN :
          App_reset_assets(fail_at, statuses_ok)

KeySave == NoPrompt /\ \E now \in SaveTimes, written \in BOOLEAN : App_save(now, written)

KeyQuit == NoPrompt /\ request_quit

KeyReload == NoPrompt /\ \E outcome \in ReloadOutcomes : request_reload(outcome)

KeyPromptNo == Prompting /\ prompt_cancel

KeyPromptYes == Prompting /\ \E outcome \in ReloadOutcomes : prompt_confirm(outcome)

\* App::handle_key, the keys that reach the override store, in a session
\* that stays on the tab it starts on
NextApp ==
    \/ KeyToggle \/ KeyCleanup \/ KeyReset \/ KeySave
    \/ KeyQuit \/ KeyReload \/ KeyPromptNo \/ KeyPromptYes

SpecApp == InitApp /\ [][NextApp]_vars

(***************************************************************************)
(* Sessions that use every key: the tabs, the selection, the search input   *)
(* and a snapshot that changes on disk between two loads.                   *)
(***************************************************************************)
\* the catalogs of the snapshot: the instructions "A" and "b", and "A" alone
UiCatalogs ==
    {[prompts |-> <<>>,
      instructions |-> <<[path |-> 2, name |-> <<65>>], [path |-> 3, name |-> <<98>>]>>,
      chat_modes |-> <<>>, collections |-> <<>>],
     [prompts |-> <<>>,
      instructions |-> <<[path |-> 2, name |-> <<65>>]>>,
      chat_modes |-> <<>>, collections |-> <<>>]}

\* the store on disk: an override of the instruction "A" and an orphan entry
UiStores ==
    {[StoreOf((<<"Instruction", 2>> :> TRUE) @@ (<<"Instruction", 1>> :> TRUE))
         EXCEPT !.updated_at = Some(1)]}

\* the characters typed into the search input: 'a', 'z' and the space
SearchChars == {97, 122, 32}

\* most characters of the search draft
MaxDraft == 1

\* the deltas of Down, Up, PageDown and PageUp
MoveDeltas == {1, -1, 10, -10}

\* the outcomes of apply_selected
ApplyOutcomes == {"ok", "copy", "status"}

\* run, on the snapshot with both instructions
InitUi ==
    \E cat \in {c \in UiCatalogs : Len(c.instructions) = 2}, file \in UiStores :
        /\ catalog = finalize(cat)
        /\ enablement = file
        /\ assets = Recompute(finalize(cat), file).assets
        /\ orphans = Recompute(finalize(cat), file).orphans
        /\ last = NoCall
        /\ app = AppNew(cat, file, {})

\* the upstream snapshot on disk is replaced (load_catalog reads the newest
\* one at the next reload)
SnapshotRefreshed ==
    /\ Running
    /\ \E cat \in UiCatalogs : app' = [app EXCEPT !.snapshot = cat]
    /\ UNCHANGED <<catalog, enablement, assets, orphans, last>>

KeyTab == NoPrompt /\ next_tab

KeyBackTab == NoPrompt /\ prev_tab

KeyMove == NoPrompt /\ \E delta \in MoveDeltas : move_selection(delta)

KeyHome == NoPrompt /\ select_index(0)

KeyEnd == NoPrompt /\ select_last

KeyApply == NoPrompt /\ \E outcome \in ApplyOutcomes : apply_selected(outcome)

KeySlash == NoPrompt /\ activate_search

KeyEsc == NoPrompt /\ clear_filter

KeySearchEsc == Searching /\ search_cancel

KeySearchEnter == Searching /\ search_apply

KeySearchBackspace == Searching /\ search_backspace

KeySearchChar ==
    /\ Searching
    /\ Len(app.search.draft) < MaxDraft
    /\ \E ch \in SearchChars : search_char(ch)

\* App::handle_key, the keys that move the selection or change the list
\* it points into, and the keys that can follow them
NextUi ==
    \/ KeyTab \/ KeyBackTab \/ KeyMove \/ KeyHome \/ KeyEnd
    \/ KeySlash \/ KeyEsc
    \/ KeySearchEsc \/ KeySearchEnter \/ KeySearchBackspace \/ KeySearchChar
    \/ KeyToggle \/ KeyQuit \/ KeyReload \/ KeyPromptNo \/ KeyPromptYes
    \/ SnapshotRefreshed

SpecUi == InitUi /\ [][NextUi]_vars

\* App::handle_key, the keys that change the override store, the dirty flag
\* or the tab, and the keys that open and close the search input and the
\* prompt
NextModes ==
    \/ KeyToggle \/ KeyCleanup \/ KeyReset \/ KeySave \/ KeyTab
    \/ KeyQuit \/ KeyReload \/ KeyPromptNo \/ KeyPromptYes
    \/ KeySlash
    \/ KeySearchEsc \/ KeySearchEnter \/ KeySearchBackspace \/ KeySearchChar

SpecModes == InitUi /\ [][NextModes]_vars

(***************************************************************************)
(* Sessions that toggle assets and collections of the catalogs above and    *)
(* keep the local files in step.                                            *)
(***************************************************************************)
\* catalogs whose collections list the instruction next to a nested
\* collection, and an entry of the wrong kind next to the prompt
SyncCatalogs ==
    {cat \in Catalogs :
        /\ cat.collections[2].id = 1
        /\ cat.collections[1].items \in {<<ItemC, ItemI>>, <<ItemX, ItemP>>}}

\* no entry, the first collection switched on, and the first collection
\* switched off over a member with an override of its own
SyncOverrides ==
    {[k \in {} |-> TRUE],
     (<<"Collection", 4>> :> TRUE),
     (<<"Collection", 4>> :> FALSE) @@ (<<"Instruction", 2>> :> TRUE)}

SyncStores == {[StoreOf(f) EXCEPT !.updated_at = IF DOMAIN f = {} THEN None ELSE Some(1)] : f \in SyncOverrides}

\* the local files a session finds: none
SyncLocalFiles == {{}}

InitSync ==
    \E cat \in SyncCatalogs, file \in SyncStores, files \in SyncLocalFiles :
        /\ catalog = finalize(cat)
        /\ enablement = file
        /\ assets = Recompute(finalize(cat), file).assets
        /\ orphans = Recompute(finalize(cat), file).orphans
        /\ last = NoCall
        /\ app = AppNew(cat, file, files)

\* App::handle_key, the key that changes local files and the keys that
\* bring either collection into reach
NextSync == KeyToggle \/ KeyApply \/ KeyTab \/ KeyEnd

SpecSync == InitSync /\ [][NextSync]_vars

(***************************************************************************)
(* The snapshot cache of src/src/io/upstream.rs.  The cache directory is   *)
(* the sequence of its subdirectories in the order of their modification   *)
(* times, oldest first.  A subdirectory is a record: name (the commit it   *)
(* is named after), metadata (snapshot.json is there and parses), content  *)
(* (there is a directory inside it), stale (fetched_at is more than        *)
(* FRESHNESS_HOURS ago).                                                   *)
(***************************************************************************)
\* the commits the upstream branch can be at
Commits == {1, 2, 3}

\* MAX_CACHE_ENTRIES
MAX_CACHE_ENTRIES == 5

\* the index of the subdirectory called name, 0 when there is none
DirIdx(cache, name) ==
    IF \E i \in 1..Len(cache) : cache[i].name = name
    THEN CHOOSE i \in 1..Len(cache) : cache[i].name = name
    ELSE 0

\* the cache without the subdirectory called name
WithoutDir(cache, name) == SelectSeq(cache, LAMBDA d : d.name # name)

\* try_load_snapshot: the commit of the snapshot in the subdirectory name
try_load_snapshot(cache, name, allow_stale) ==
    LET i == DirIdx(cache, name)
    IN  IF i = 0 THEN None
        ELSE IF ~cache[i].metadata THEN None
        ELSE IF ~cache[i].content THEN None
        ELSE IF ~allow_stale /\ cache[i].stale THEN None
        ELSE Some(name)

\* load_latest_snapshot: None for a cache without subdirectory, else the
\* result of loading the most recently modified one
load_latest_snapshot(cache) ==
    IF cache = <<>> THEN None
    ELSE LET loaded == try_load_snapshot(cache, cache[Len(cache)].name, TRUE)
         IN  Some([ok |-> IsSome(loaded), commit |-> loaded])

\* what download_snapshot can come to: Ok, an Err before the cache is
\* touched (request, temp file), an Err when the archive is opened (the
\* directory of the commit is there, emptied), an Err while entries are
\* extracted or the metadata is written (content without snapshot.json)
DownloadOutcomes == {"ok", "request", "archive", "extract"}

\* download_snapshot: the cache it leaves behind
download_snapshot(cache, commit, outcome) ==
    IF outcome = "request" THEN cache
    ELSE WithoutDir(cache, commit) \o
            <<[name |-> commit, metadata |-> outcome = "ok",
               content |-> outcome \in {"ok", "extract"}, stale |-> FALSE]>>

\* prune_old_snapshots: the oldest subdirectories go until keep are left
prune_old_snapshots(cache, keep) ==
    IF Len(cache) > keep THEN SubSeq(cache, Len(cache) - keep + 1, Len(cache)) ELSE cache

\* ensure_snapshot: the result, the commit of the snapshot returned and the
\* cache left behind; query is the commit fetch_latest_commit returns, None
\* for an Err; download is looked at only when download_snapshot is called
ensure_snapshot(cache, force_refresh, query, download) ==
    IF IsNone(query)
    THEN LET latest == load_latest_snapshot(cache)
         IN  [ok |-> IsSome(latest) /\ latest[1].ok,
              commit |-> IF IsSome(latest) THEN latest[1].commit ELSE None,
              cache |-> cache, downloaded |-> "none"]
    ELSE LET commit == query[1]
         IN  IF ~force_refresh /\ IsSome(try_load_snapshot(cache, commit, FALSE))
             THEN [ok |-> TRUE, commit |-> Some(commit), cache |-> cache, downloaded |-> "none"]
             ELSE LET after == download_snapshot(cache, commit, download)
                      latest == load_latest_snapshot(after)
                  IN  IF download = "ok"
                      THEN [ok |-> TRUE, commit |-> Some(commit),
                            cache |-> prune_old_snapshots(after, MAX_CACHE_ENTRIES),
                            downloaded |-> download]
                      ELSE IF IsSome(try_load_snapshot(after, commit, TRUE))
                      THEN [ok |-> TRUE, commit |-> Some(commit), cache |-> after,
                            downloaded |-> download]
                      ELSE [ok |-> IsSome(latest) /\ latest[1].ok,
                            commit |-> IF IsSome(latest) THEN latest[1].commit ELSE None,
                            cache |-> after, downloaded |-> download]

\* the session with the cache directory of its workspace
CacheApp(cache) == [cache |-> cache] @@ NoApp

\* a first start: ensure_project_structure has made an empty cache directory
InitCache ==
    /\ catalog = finalize(DefaultCatalog)
    /\ enablement = DefaultEnablement
    /\ assets = Recompute(finalize(DefaultCatalog), DefaultEnablement).assets
    /\ orphans = Recompute(finalize(DefaultCatalog), DefaultEnablement).orphans
    /\ last = NoCall
    /\ app = CacheApp(<<>>)

\* a call of ensure_snapshot; last keeps the cache it found
EnsureSnapshot ==
    \E force_refresh \in BOOLEAN, query \in {None} \cup {Some(c) : c \in Commits},
       download \in DownloadOutcomes :
        LET result == ensure_snapshot(app.cache, force_refresh, query, download)
        IN  /\ app' = [app EXCEPT !.cache = result.cache]
            /\ last' = [op |-> "ensure_snapshot", ok |-> result.ok, commit |-> result.commit,
                        before |-> app.cache, force_refresh |-> force_refresh,
                        query |-> query, downloaded |-> result.downloaded]
            /\ UNCHANGED <<catalog, enablement, assets, orphans>>

\* FRESHNESS_HOURS go by between two calls: every snapshot fetched so far
\* is stale
HoursPass ==
    /\ \E i \in 1..Len(app.cache) : app.cache[i].metadata /\ ~app.cache[i].stale
    /\ app' = [app EXCEPT !.cache = [i \in 1..Len(app.cache) |->
                    [app.cache[i] EXCEPT !.stale = app.cache[i].metadata]]]
    /\ UNCHANGED <<catalog, enablement, assets, orphans, last>>

NextCache == EnsureSnapshot \/ HoursPass

SpecCache == InitCache /\ [][NextCache]_vars

(***************************************************************************)
(* Properties                                                               *)
(***************************************************************************)
\* the last operation was a toggle_asset that returned Ok
ToggledOk == last.op = "toggle" /\ last.ok

\* the views of the members of the collection at path p that are not
\* collections themselves and have no explicit override of their own
PlainMembers(p) ==
    LET c == collection_by_path(catalog, p)[1]
    IN  {v \in UNION {{assets[kind][i] : i \in 1..Len(assets[kind])} : kind \in AssetKind \ {"Collection"}} :
            /\ \E k \in 1..Len(c.items) : c.items[k].kind = v.kind /\ c.items[k].path = v.path
            /\ v.explicit = None}

\* C1: in every reachable state every AssetView has effective equal to its
\* explicit override when it has one, otherwise to the inherited value when
\* it has one, otherwise false.
C1_EffectiveIsResolved ==
    \A kind \in AssetKind : \A i \in 1..Len(assets[kind]) :
        LET v == assets[kind][i]
        IN  v.effective = IF v.explicit # None THEN v.explicit[1]
                          ELSE IF v.inherited # None THEN v.inherited[1].value
                          ELSE FALSE

\* a toggle has run and some view holds an explicit override that
\* contradicts the value it inherits
C1_Witness ==
    /\ ToggledOk
    /\ \E kind \in AssetKind : \E i \in 1..Len(assets[kind]) :
          LET v == assets[kind][i]
          IN  v.explicit # None /\ v.inherited # None /\ v.explicit[1] # v.inherited[1].value

\* C2: a successful toggle_asset returns a view whose effective value is the
\* negation of the asset's effective value immediately before the call.
C2_ToggleNegatesEffective ==
    ToggledOk => last.asset[1].effective = ~last.before[1].effective

\* C3: two toggle_asset calls in a row on the same (kind, path) leave the
\* asset's effective value equal to its value before the first call.
C3_ToggleTwiceRestores ==
    [][(/\ ToggledOk
        /\ last'.op = "toggle" /\ last'.ok
        /\ last'.kind = last.kind /\ last'.path = last.path)
       => last'.asset[1].effective = last.before[1].effective]_vars

\* C4: toggling a collection whose explicit override is false leaves true
\* stored for it, and every member without an override of its own is then
\* effective, with explicit None and the inherited value true.
C4_CollectionOnEnablesMembers ==
    (ToggledOk /\ last.kind = "Collection" /\ last.before[1].explicit = Some(FALSE))
    => /\ MapGet(enablement.collections, last.path) = Some(TRUE)
       /\ \A v \in PlainMembers(last.path) :
             v.effective /\ v.inherited # None /\ v.inherited[1].value

\* C5: toggling a collection that has no explicit override writes an
\* explicit override entry for it.
C5_FirstCollectionToggleWrites ==
    (ToggledOk /\ last.kind = "Collection" /\ last.before[1].explicit = None)
    => last.path \in DOMAIN enablement.collections

\* C6: toggling a collection whose explicit override is true removes its
\* entry, and every member without an override of its own is then not
\* effective, with explicit None and inherited None.
C6_CollectionOffRemovesEntry ==
    (ToggledOk /\ last.kind = "Collection" /\ last.before[1].explicit = Some(TRUE))
    => /\ last.path \notin DOMAIN enablement.collections
       /\ \A v \in PlainMembers(last.path) : ~v.effective /\ v.inherited = None

\* C7: toggling an asset that has no explicit override, no inherited state
\* and effective false leaves the override store as it was: no entry is
\* written for the asset, and the view returned is still not effective.
C7_DefaultToggleIsNoOp ==
    [][(/\ last'.op = "toggle" /\ last'.ok
        /\ last'.before[1].explicit = None
        /\ last'.before[1].inherited = None
        /\ ~last'.before[1].effective)
       => /\ enablement' = enablement
          /\ last'.path \notin DOMAIN map_for(enablement', last'.kind)
          /\ ~last'.asset[1].effective]_vars

\* the toggle of an asset in its default state has run and returned a view
\* that is still disabled
C7_Witness ==
    /\ ToggledOk
    /\ last.before[1].explicit = None
    /\ last.before[1].inherited = None
    /\ ~last.before[1].effective
    /\ ~last.asset[1].effective
    /\ last.asset[1].explicit = None

C9_NoRedundantOverride ==
    ToggledOk =>
        LET v == last.asset[1]
        IN  v.explicit # None =>
                v.explicit[1] # (IF v.inherited # None THEN v.inherited[1].value ELSE FALSE)

\* every assignment of overrides to the collections of the catalog
CollectionAssignments ==
    UNION {[K -> BOOLEAN] : K \in SUBSET catalog.collection_index}

\* some collection of the catalog lists path p and has an override of its own
ListedByOverridden(p) ==
    \E c \in 1..Len(catalog.collections) :
        /\ \E k \in 1..Len(catalog.collections[c].items) : catalog.collections[c].items[k].path = p
        /\ catalog.collections[c].path \in DOMAIN enablement.collections

\* C10: a non-collection asset with the explicit override x is effective
\* exactly when x, under every assignment of collection overrides; its
\* inherited field is populated whenever a collection that lists it has an
\* override of its own.
C10_ExplicitWins ==
    \A kind \in AssetKind \ {"Collection"} : \A i \in 1..Len(assets[kind]) :
        LET v == assets[kind][i]
        IN  v.explicit # None =>
              /\ v.effective = v.explicit[1]
              /\ \A cm \in CollectionAssignments :
                    build_asset_view(catalog, [enablement EXCEPT !.collections = cm], kind,
                                     [path |-> v.path, name |-> v.name]).effective = v.explicit[1]
              /\ ListedByOverridden(v.path) => v.inherited # None

\* a collection toggle has left an explicitly enabled member under a
\* collection whose override is false
C10_Witness ==
    /\ ToggledOk /\ last.kind = "Collection"
    /\ \E kind \in AssetKind \ {"Collection"} : \E i \in 1..Len(assets[kind]) :
          LET v == assets[kind][i]
          IN  /\ v.explicit = Some(TRUE)
              /\ v.inherited # None
              /\ ~v.inherited[1].value
              /\ v.inherited[1].collection.path = last.path
              /\ v.effective

\* the indices of the catalog's collections that list path p and have an
\* override of their own in the collections map
OverriddenListing(p) ==
    {c \in 1..Len(catalog.collections) :
        /\ \E k \in 1..Len(catalog.collections[c].items) : catalog.collections[c].items[k].path = p
        /\ catalog.collections[c].path \in DOMAIN enablement.collections}

\* C11: a non-collection asset without an explicit override has inherited
\* state exactly when some collection that lists its path has an override in
\* the collections map; then effective is that override's value and
\* inherited.collection.id is that collection's id; otherwise (collections
\* without an override contribute nothing) it is not effective.
C11_InheritedFromOverriddenCollection ==
    \A kind \in AssetKind \ {"Collection"} : \A i \in 1..Len(assets[kind]) :
        LET v == assets[kind][i]
        IN  v.explicit = None =>
              /\ (v.inherited # None) <=> (OverriddenListing(v.path) # {})
              /\ v.inherited # None =>
                    /\ \E c \in OverriddenListing(v.path) :
                          /\ v.inherited[1].collection.id = catalog.collections[c].id
                          /\ v.inherited[1].value = enablement.collections[catalog.collections[c].path]
                    /\ v.effective = v.inherited[1].value
              /\ v.inherited = None => ~v.effective

\* a collection toggle has left a member enabled through the collection's
\* override while another collection that lists the member has none
C11_Witness ==
    /\ ToggledOk /\ last.kind = "Collection"
    /\ \E kind \in AssetKind \ {"Collection"} : \E i \in 1..Len(assets[kind]) :
          LET v == assets[kind][i]
          IN  /\ v.explicit = None
              /\ v.inherited # None
              /\ v.inherited[1].value
              /\ v.effective
              /\ \E c \in 1..Len(catalog.collections) :
                    /\ \E k \in 1..Len(catalog.collections[c].items) :
                          catalog.collections[c].items[k].path = v.path
                    /\ c \notin OverriddenListing(v.path)

\* C12: an asset listed by two or more collections that each have an
\* override inherits from the one with the smallest id, whatever the order
\* of the collections in the catalog.
C12_SmallestIdWins ==
    \A kind \in AssetKind \ {"Collection"} : \A i \in 1..Len(assets[kind]) :
        LET v == assets[kind][i]
            cs == OverriddenListing(v.path)
            reversed == [catalog EXCEPT !.collections =
                            [j \in 1..Len(@) |-> @[Len(@) + 1 - j]]]
        IN  Cardinality(cs) >= 2 =>
              /\ v.inherited # None
              /\ \A c \in cs : v.inherited[1].collection.id <= catalog.collections[c].id
              /\ \E c \in cs :
                    /\ v.inherited[1].collection.id = catalog.collections[c].id
                    /\ v.inherited[1].value = enablement.collections[catalog.collections[c].path]
              /\ inherited_state(finalize(reversed), enablement, v.path) = v.inherited

\* a toggle has left an asset under two overridden collections that
\* disagree, inheriting from the one the catalog lists second
C12_Witness ==
    /\ ToggledOk
    /\ \E kind \in AssetKind \ {"Collection"} : \E i \in 1..Len(assets[kind]) :
          LET v == assets[kind][i]
              cs == OverriddenListing(v.path)
          IN  /\ Cardinality(cs) >= 2
              /\ \E c, d \in cs : enablement.collections[catalog.collections[c].path]
                                      # enablement.collections[catalog.collections[d].path]
              /\ v.inherited # None
              /\ v.inherited[1].collection.path = catalog.collections[2].path

\* the four override maps hold no entry
StoreEmpty ==
    \A kind \in AssetKind : DOMAIN map_for(enablement, kind) = {}

\* C13: when all four override maps are empty, every asset of every kind,
\* collections included, has effective false, explicit None and inherited
\* None.
C13_EmptyStoreDisablesAll ==
    StoreEmpty =>
        \A kind \in AssetKind : \A i \in 1..Len(assets[kind]) :
            LET v == assets[kind][i]
            IN  ~v.effective /\ v.explicit = None /\ v.inherited = None

\* a toggle has removed the last entry of the store, and the collections
\* and their members are all resolved to the default
C13_Witness ==
    /\ ToggledOk
    /\ last.before[1].explicit # None
    /\ StoreEmpty
    /\ \A kind \in AssetKind : \A i \in 1..Len(assets[kind]) : ~assets[kind][i].effective
    /\ \E c \in 1..Len(catalog.collections) : catalog.collections[c].items # <<>>

\* C14: every Collection view has inherited None and effective equal to
\* its own explicit override, false when it has none, also when another
\* collection that has an override lists it as an item.
C14_CollectionsNeverInherit ==
    \A i \in 1..Len(assets["Collection"]) :
        LET v == assets["Collection"][i]
        IN  /\ v.inherited = None
            /\ v.effective = (IF v.explicit # None THEN v.explicit[1] ELSE FALSE)
            /\ v.explicit = MapGet(enablement.collections, v.path)

\* a toggle has left a collection listed as an item of another collection
\* whose override differs from the nested collection's own state
C14_Witness ==
    /\ ToggledOk /\ last.kind = "Collection"
    /\ \E i, j \in 1..Len(assets["Collection"]) :
          LET v == assets["Collection"][i]
              w == assets["Collection"][j]
          IN  /\ v.path \in {e.path : e \in {collection_by_path(catalog, w.path)[1].items[k] :
                                  k \in 1..Len(collection_by_path(catalog, w.path)[1].items)}}
              /\ w.explicit # None
              /\ w.explicit[1] # v.effective
              /\ v.inherited = None

\* C15: after DomainState::new and after every toggle_asset,
\* cleanup_orphans and reset, the stored views and the stored orphan list
\* are what a fresh resolution of the catalog and the override store gives.
C15_ViewsAreFresh ==
    /\ assets = ResolveAssets(catalog, enablement)
    /\ orphans = collect_orphans(catalog, enablement)

\* a cleanup has removed orphan entries and a store with overrides is left
C15_Witness ==
    /\ last.op = "cleanup" /\ last.removed > 0
    /\ orphans = <<>>
    /\ ~StoreEmpty
    /\ \E kind \in AssetKind : \E i \in 1..Len(assets[kind]) : assets[kind][i].explicit # None

\* C16: toggle_asset(kind, path) changes at most the entry keyed
\* (kind, path): every other entry of the four maps, the version and
\* updated_at stay as they were, and the toggle of an asset that is not a
\* collection leaves the collections map as it was.
C16_ToggleTouchesOneEntry ==
    [][last'.op = "toggle"
       => /\ \A kind \in AssetKind : \A q \in Paths :
                (kind # last'.kind \/ q # last'.path)
                => MapGet(map_for(enablement', kind), q) = MapGet(map_for(enablement, kind), q)
          /\ \A kind \in AssetKind : DOMAIN map_for(enablement', kind) \subseteq Paths
          /\ enablement'.version = enablement.version
          /\ enablement'.updated_at = enablement.updated_at
          /\ last'.kind # "Collection" => enablement'.collections = enablement.collections]_vars

\* the toggle of a member has stored an override against the value it
\* inherits, in a stamped store where the collection's entry is still in place
C16_Witness ==
    /\ ToggledOk /\ last.kind # "Collection"
    /\ last.before[1].explicit = None
    /\ last.asset[1].explicit # None
    /\ last.asset[1].inherited # None
    /\ MapGet(enablement.collections, last.asset[1].inherited[1].collection.path)
          = Some(last.asset[1].inherited[1].value)
    /\ enablement.updated_at # None

\* C17: toggle_asset(kind, path) returns an error when no resolved view of
\* that kind has the path, also when a view of another kind has it, and
\* then the override store, the views and the orphan list are unchanged.
C17_ToggleUnknownFails ==
    [][(/\ last'.op = "toggle"
        /\ \A i \in 1..Len(assets[last'.kind]) : assets[last'.kind][i].path # last'.path)
       => /\ ~last'.ok
          /\ enablement' = enablement
          /\ assets' = assets
          /\ orphans' = orphans]_vars

\* a toggle of a path that only a view of another kind has was refused
\* while the store holds an orphan entry under exactly that key
C17_Witness ==
    /\ last.op = "toggle" /\ ~last.ok
    /\ \A i \in 1..Len(assets[last.kind]) : assets[last.kind][i].path # last.path
    /\ \E kind \in AssetKind \ {last.kind} : \E i \in 1..Len(assets[kind]) :
          assets[kind][i].path = last.path
    /\ last.path \in DOMAIN map_for(enablement, last.kind)
    /\ orphans # <<>>

\* the last operation was an analyze_collection_toggle_impact that returned Ok
AnalyzedOk == last.op = "analyze" /\ last.ok

\* the view of kind and path in the resolved views
ViewOf(kind, path) ==
    CHOOSE v \in {assets[kind][i] : i \in 1..Len(assets[kind])} : v.path = path

\* C18: when analyze_collection_toggle_impact has run on a collection and
\* toggle_asset is applied to that collection next, the collection's
\* effective value after the toggle is collection_will_enable and every
\* reported member's effective value is the new_effective reported for it.
C18_ImpactPredictsToggle ==
    [][(/\ AnalyzedOk
        /\ last'.op = "toggle" /\ last'.kind = "Collection" /\ last'.path = last.path)
       => /\ last'.ok
          /\ last'.asset[1].effective = last.impact[1].collection_will_enable
          /\ \A i \in 1..Len(last.impact[1].affected_members) :
                LET m == last.impact[1].affected_members[i]
                IN  \E j \in 1..Len(assets'[m.kind]) :
                       /\ assets'[m.kind][j].path = m.path
                       /\ assets'[m.kind][j].effective = m.new_effective]_vars

\* C19: analyze_collection_toggle_impact reports collection_will_enable as
\* the negation of the collection's effective value; a member with an
\* explicit override keeps its effective value and is Unchanged; a member
\* without one gets new_effective = collection_will_enable; every member is
\* classified by comparing its current effective value with new_effective.
C19_ImpactAlgorithm ==
    AnalyzedOk =>
        LET r == last.impact[1]
        IN  /\ r.collection_will_enable = ~ViewOf("Collection", last.path).effective
            /\ \A i \in 1..Len(r.affected_members) :
                  LET m == r.affected_members[i]
                      v == ViewOf(m.kind, m.path)
                  IN  /\ m.current_effective = v.effective
                      /\ v.explicit # None =>
                            m.new_effective = v.effective /\ m.impact = "Unchanged"
                      /\ v.explicit = None => m.new_effective = r.collection_will_enable
                      /\ m.impact = (IF m.current_effective = m.new_effective THEN "Unchanged"
                                     ELSE IF m.new_effective THEN "WillEnable"
                                     ELSE "WillDisable")

\* an analysis of a collection set to false has reported that it will be
\* enabled, one member with an override of its own Unchanged and another
\* member WillEnable
C19_Witness ==
    /\ AnalyzedOk
    /\ ViewOf("Collection", last.path).explicit = Some(FALSE)
    /\ last.impact[1].collection_will_enable
    /\ \E i, j \in 1..Len(last.impact[1].affected_members) :
          LET m == last.impact[1].affected_members[i]
              n == last.impact[1].affected_members[j]
          IN  /\ ViewOf(m.kind, m.path).explicit # None
              /\ m.impact = "Unchanged"
              /\ ViewOf(n.kind, n.path).explicit = None
              /\ n.impact = "WillEnable"

C21_AnalyzeIsReadOnly ==
    [][last'.op = "analyze"
       => /\ enablement' = enablement
          /\ assets' = assets
          /\ orphans' = orphans
          /\ catalog' = catalog
          /\ last'.ok <=> (last'.path \in catalog.collection_index)]_vars

\* an analysis has succeeded on a store with overrides and has reported
\* members whose state the toggle would change
C21_Witness ==
    /\ AnalyzedOk
    /\ ~StoreEmpty
    /\ last.impact[1].enable_count + last.impact[1].disable_count > 0
    /\ assets = ResolveAssets(catalog, enablement)

\* C25: after Catalog::finalize the membership list of every path is
\* sorted ascending by collection id and holds no collection id twice.
C25_MembershipSortedNoDuplicates ==
    \A p \in Paths :
        LET ids == memberships(catalog, p)
        IN  /\ \A i, j \in 1..Len(ids) : i < j => ids[i] <= ids[j]
            /\ \A i, j \in 1..Len(ids) : i # j => ids[i] # ids[j]

\* C27: from an empty override store no toggle_asset, cleanup_orphans or
\* reset leaves an entry in the store or an asset effective: a session
\* that starts with an empty store keeps it empty and every asset disabled.
C27_TogglesEnableNothing ==
    [][(StoreEmpty /\ last'.op \in {"toggle", "cleanup", "reset"})
       => /\ \A kind \in AssetKind : DOMAIN map_for(enablement', kind) = {}
          /\ \A kind \in AssetKind : \A i \in 1..Len(assets'[kind]) :
                ~assets'[kind][i].effective]_vars

\* the toggle of a collection that has members has returned Ok with the
\* store empty before and after it, and nothing is effective
C27_Witness ==
    /\ ToggledOk /\ last.kind = "Collection"
    /\ last.before[1].explicit = None
    /\ last.before[1].member_count > 0
    /\ StoreEmpty
    /\ ~last.asset[1].effective
    /\ \A kind \in AssetKind : \A i \in 1..Len(assets[kind]) : ~assets[kind][i].effective

\* C28: the toggle of a non-collection asset that has inherited state
\* flips its effective value whatever its explicit override was, and a
\* second toggle of it restores the effective value it started with.
C28_InheritedToggleFlips ==
    [][/\ (/\ last'.op = "toggle" /\ last'.ok /\ last'.kind # "Collection"
            /\ last'.before[1].inherited # None)
           => last'.asset[1].effective = ~last'.before[1].effective
       /\ (/\ ToggledOk /\ last.kind # "Collection"
            /\ last.before[1].inherited # None
            /\ last'.op = "toggle" /\ last'.kind = last.kind /\ last'.path = last.path)
           => /\ last'.ok
              /\ last'.asset[1].effective = last.before[1].effective]_vars

\* the toggle of a member that had an override of its own under an
\* overridden collection has flipped it by removing that override
C28_Witness ==
    /\ ToggledOk /\ last.kind # "Collection"
    /\ last.before[1].inherited # None
    /\ last.before[1].explicit # None
    /\ last.asset[1].explicit = None
    /\ last.asset[1].inherited # None
    /\ last.asset[1].effective = ~last.before[1].effective

OrphanKeys(file) ==
    {k \in AssetKind \X Paths :
        k[2] \in DOMAIN map_for(file, k[1]) /\ ~contains(catalog, k[1], k[2])}

\* C22: cleanup_orphans returns the number of orphan entries the store held
\* before the call and removes exactly those; afterwards the orphan list
\* is empty, and a cleanup_orphans right after another returns 0 and
\* changes nothing.
C22_CleanupRemovesOrphans ==
    [][last'.op = "cleanup"
       => /\ last'.removed = Cardinality(OrphanKeys(enablement))
          /\ \A kind \in AssetKind : \A q \in Paths :
                MapGet(map_for(enablement', kind), q)
                  = IF <<kind, q>> \in OrphanKeys(enablement) THEN None
                    ELSE MapGet(map_for(enablement, kind), q)
          /\ orphans' = <<>>
          /\ last.op = "cleanup"
             => /\ last'.removed = 0
                /\ enablement' = enablement
                /\ assets' = assets
                /\ orphans' = orphans]_vars

\* a cleanup has removed several orphan entries and has left the entries
\* of catalog assets in the store
C22_Witness ==
    /\ last.op = "cleanup" /\ last.removed >= 2
    /\ orphans = <<>>
    /\ OrphanKeys(enablement) = {}
    /\ ~StoreEmpty

\* C23: the orphan list holds exactly one entry (kind, path, value) for
\* every entry of the override store whose path the catalog does not hold
\* under that kind, nothing else, and is ordered by path ascending
\* whatever the kinds.
C23_OrphanList ==
    /\ {<<orphans[i].kind, orphans[i].path>> : i \in 1..Len(orphans)} = OrphanKeys(enablement)
    /\ Len(orphans) = Cardinality(OrphanKeys(enablement))
    /\ \A i \in 1..Len(orphans) :
          orphans[i].value = map_for(enablement, orphans[i].kind)[orphans[i].path]
    /\ \A i, j \in 1..Len(orphans) : i < j => orphans[i].path <= orphans[j].path

\* after a toggle the orphan list holds an entry stored under the kind of
\* another asset's path ahead of a prompt entry with a greater path
C23_Witness ==
    /\ ToggledOk
    /\ \E i, j \in 1..Len(orphans) :
          /\ i < j
          /\ orphans[i].kind = "Instruction" /\ contains(catalog, "Prompt", orphans[i].path)
          /\ orphans[j].kind = "Prompt" /\ orphans[i].path < orphans[j].path

\* the four override maps of a store
MapsOf(file) == [kind \in AssetKind |-> map_for(file, kind)]

\* C24: after a reset-all that returned Ok all four override maps are empty
\* and updated_at is None, every view has effective false, explicit None
\* and inherited None, the orphan list is empty and the dirty flag is set.
C24_ResetAll ==
    (last.op = "reset" /\ last.ok /\ ~app.error)
    => /\ StoreEmpty
       /\ enablement.updated_at = None
       /\ \A kind \in AssetKind : \A i \in 1..Len(assets[kind]) :
             LET v == assets[kind][i]
             IN  ~v.effective /\ v.explicit = None /\ v.inherited = None
       /\ orphans = <<>>
       /\ app.dirty

\* a reset has returned Ok in a session whose file on disk is stamped and
\* holds an override of the collection and an orphan entry
C24_Witness ==
    /\ last.op = "reset" /\ last.ok /\ ~app.error
    /\ app.dirty
    /\ app.disk.updated_at # None
    /\ OrphanKeys(app.disk) # {}
    /\ app.disk.collections # <<>>
    /\ StoreEmpty

\* C26: toggle_asset and cleanup_orphans leave the store's version and
\* updated_at as they were, and a save that succeeds leaves updated_at at
\* the time of the save.
C26_StampSetBySaveOnly ==
    [][/\ last'.op \in {"toggle", "cleanup"}
          => /\ enablement'.version = enablement.version
             /\ enablement'.updated_at = enablement.updated_at
       /\ (last'.op = "save" /\ last'.ok)
          => /\ enablement'.updated_at = Some(last'.now)
             /\ enablement'.version = enablement.version
             /\ app'.disk.updated_at = Some(last'.now)]_vars

\* a save has succeeded on a store with overrides that a toggle had changed
\* and has replaced the stamp the file was loaded with
C26_Witness ==
    /\ last.op = "save" /\ last.ok
    /\ enablement.updated_at = Some(last.now)
    /\ last.now = 3
    /\ app.disk = enablement
    /\ ~app.dirty
    /\ \E kind \in AssetKind : \E i \in 1..Len(assets[kind]) :
          assets[kind][i].explicit = Some(FALSE)

\* C30: whenever the override maps in memory differ from the maps last
\* loaded from disk or last saved, the dirty flag is true, also after a
\* toggle whose file synchronisation failed.
C30_DirtyTracksChanges ==
    MapsOf(enablement) # MapsOf(app.disk) => app.dirty

\* C31: while dirty is set 'q' and 'r' only set the pending prompt; from a
\* dirty state should_quit becomes true, or the store is reloaded, only by
\* 'y' or Enter on that prompt; 'n' or Esc clears the prompt and leaves the
\* override store, dirty and should_quit as they were; while dirty is not
\* set 'q' sets should_quit at once.
C31_PromptGuardsQuitAndReload ==
    [][/\ (app.dirty /\ KeyQuit) => app' = [app EXCEPT !.prompt = Some("Quit")]
       /\ (app.dirty /\ KeyReload) => app' = [app EXCEPT !.prompt = Some("Reload")]
       /\ (app.dirty /\ (KeyQuit \/ KeyReload))
             => UNCHANGED <<catalog, enablement, assets, orphans, last>>
       /\ (app.dirty /\ app'.should_quit)
             => (app.prompt = Some("Quit") /\ KeyPromptYes)
       /\ (app.dirty /\ last'.op = "reload" /\ <<last, enablement>>' # <<last, enablement>>)
             => (app.prompt = Some("Reload") /\ KeyPromptYes)
       /\ KeyPromptNo
             => /\ app'.prompt = None
                /\ app'.dirty = app.dirty
                /\ app'.should_quit = app.should_quit
                /\ enablement' = enablement
       /\ (~app.dirty /\ KeyQuit) => app'.should_quit]_vars

\* a session with unsaved changes has quit: the prompt was confirmed
C31_Witness ==
    /\ app.should_quit
    /\ app.dirty
    /\ app.prompt = None
    /\ MapsOf(enablement) # MapsOf(app.disk)

\* C32: cleanup_orphans removes only orphan entries: every entry whose
\* path the catalog holds under its kind is left as it was, and no view's
\* explicit, inherited or effective value differs after the call.
C32_CleanupKeepsCatalogEntries ==
    [][last'.op = "cleanup"
       => /\ \A kind \in AssetKind : \A q \in Paths :
                contains(catalog, kind, q)
                => MapGet(map_for(enablement', kind), q) = MapGet(map_for(enablement, kind), q)
          /\ \A kind \in AssetKind :
                /\ Len(assets'[kind]) = Len(assets[kind])
                /\ \A i \in 1..Len(assets[kind]) :
                      /\ assets'[kind][i].path = assets[kind][i].path
                      /\ assets'[kind][i].explicit = assets[kind][i].explicit
                      /\ assets'[kind][i].inherited = assets[kind][i].inherited
                      /\ assets'[kind][i].effective = assets[kind][i].effective]_vars

\* a cleanup has removed an orphan entry and has left an overridden
\* collection, a member that inherits from it and an override of an asset
C32_Witness ==
    /\ last.op = "cleanup" /\ last.removed > 0
    /\ \E i \in 1..Len(assets["Collection"]) : assets["Collection"][i].explicit # None
    /\ \E kind \in AssetKind \ {"Collection"} : \E i \in 1..Len(assets[kind]) :
          assets[kind][i].inherited # None
    /\ \E kind \in AssetKind \ {"Collection"} : \E i \in 1..Len(assets[kind]) :
          assets[kind][i].explicit # None

\* C33: the result of analyze_collection_toggle_impact satisfies
\* enable_count + disable_count + unchanged_count = number of
\* affected_members = total_members, for every collection and store.
C33_ImpactCountsAddUp ==
    AnalyzedOk
    => LET r == last.impact[1]
       IN  /\ r.enable_count + r.disable_count + r.unchanged_count = Len(r.affected_members)
           /\ Len(r.affected_members) = r.total_members

\* C34: a save that fails leaves the override store in memory, updated_at
\* included, exactly as it was before the call, and leaves a set dirty flag
\* set.
C34_FailedSaveChangesNothing ==
    [][(last'.op = "save" /\ ~last'.ok)
       => /\ enablement' = enablement
          /\ app.dirty => app'.dirty]_vars

\* C35: the search input and a pending prompt are never active together;
\* while the search input is active no key changes the override store, the
\* dirty flag or the tab, and none toggles, resets, cleans up or saves;
\* with a prompt pending they change only through a confirmed reload.
C35_ModesAreExclusive ==
    [][/\ ~(app.search.active /\ app.prompt # None)
       /\ ~(app'.search.active /\ app'.prompt # None)
       /\ app.search.active
             => /\ UNCHANGED <<catalog, enablement, assets, orphans, last>>
                /\ app' = [app EXCEPT !.search = app'.search,
                                      !.selections = app'.selections]
       /\ (app.prompt # None /\ ~(app.prompt = Some("Reload") /\ KeyPromptYes))
             => /\ UNCHANGED <<catalog, enablement, assets, orphans, last>>
                /\ app' = [app EXCEPT !.prompt = None,
                                      !.should_quit = app'.should_quit]]_vars

\* the search input is open with a typed draft on another tab than the
\* first, over a store with unsaved changes
C35_Witness ==
    /\ app.search.active
    /\ app.search.draft # <<>>
    /\ app.prompt = None
    /\ app.dirty
    /\ app.tab # "Instruction"
    /\ MapsOf(enablement) # MapsOf(app.disk)

\* C38: whenever the screen is drawn the selection index of the current
\* tab is 0 if the filtered list is empty and less than its length
\* otherwise; move_selection, select_index and select_last never store an
\* index at or beyond the filtered length, whatever keys came before,
\* filter changes, tab switches and reloads included.
C38_SelectionInBounds ==
    ~app.failed
    => LET len == Len(filtered_assets(app, assets, app.tab))
       IN  IF len = 0 THEN current_selection(app) = 0
           ELSE current_selection(app) < len

\* a reload has left one instruction of two in the catalog; the selection
\* points at it under a filter it matches
C38_Witness ==
    /\ ~app.failed
    /\ last.op = "reload" /\ last.ok
    /\ app.tab = "Instruction"
    /\ app.search.query # <<>>
    /\ Len(assets["Instruction"]) = 1
    /\ Len(filtered_assets(app, assets, app.tab)) = 1
    /\ current_selection(app) = 0
    /\ Len(app.snapshot.instructions) = 2


\* C36: after a toggle the App reports as done, the local files mirror the
\* resolved state: the file of a toggled prompt, instruction or chat mode
\* exists exactly when the asset is effective, the file of each item of a
\* toggled collection that is not a collection and has a view under its kind
\* exists exactly when that view is effective, and no file operation touches
\* an item of kind Collection.
C36_FilesMirrorToggle ==
    [][(KeyToggle /\ IsSome(selected_asset(app, assets)) /\ ~app'.error) =>
        LET sel == selected_asset(app, assets)[1]
            collection == FindByPath(catalog.collections, sel.path)
            items == IF IsSome(collection) THEN collection[1].items ELSE <<>>
        IN  /\ sel.kind # "Collection" =>
                (<<sel.kind, sel.path>> \in app'.files
                    <=> FindByPath(assets'[sel.kind], sel.path)[1].effective)
            /\ sel.kind = "Collection" =>
                \A i \in 1..Len(items) :
                    LET view == FindByPath(assets'[items[i].kind], items[i].path)
                    IN  (items[i].kind # "Collection" /\ IsSome(view)) =>
                            (<<items[i].kind, items[i].path>> \in app'.files
                                <=> view[1].effective)
            /\ {f \in app'.files : f[1] = "Collection"} = {f \in app.files : f[1] = "Collection"}]_vars

\* a collection toggle has gone through that left the collection disabled,
\* and of its two items the instruction, which is effective all the same,
\* has its file while the prompt has none
C36_Witness ==
    /\ last.op = "toggle" /\ last.ok /\ last.kind = "Collection" /\ last.path = 5
    /\ ~app.error /\ app.dirty
    /\ FindByPath(catalog.collections, 5)[1].items = <<ItemP, ItemI>>
    /\ ~last.asset[1].effective
    /\ FindByPath(assets["Instruction"], 2)[1].effective
    /\ app.files = {<<"Instruction", 2>>}


\* the subdirectories of a cache that hold a loadable snapshot: a
\* snapshot.json that parses and a content directory
LoadableSnapshots(cache) ==
    {cache[i].name : i \in {j \in 1..Len(cache) : cache[j].metadata /\ cache[j].content}}

\* C37: ensure_snapshot returns Ok whenever the cache it finds holds a
\* loadable snapshot, whether the commit query, the download or the
\* extraction fails; a refresh that fails leaves every snapshot loadable
\* that was loadable before; Err is returned only when the cache held no
\* loadable snapshot.
C37_CachedSnapshotServes ==
    last.op = "ensure_snapshot" =>
        /\ LoadableSnapshots(last.before) # {} => last.ok
        /\ last.downloaded # "ok" => LoadableSnapshots(last.before) \subseteq LoadableSnapshots(app.cache)
        /\ ~last.ok => LoadableSnapshots(last.before) = {}

====
